---- MODULE Spec2Model ----
(***************************************************************************)
(* Doc2MD: the crawl frontier of WebCrawler (doc2md/crawler.py), its URL   *)
(* scope and exclusion filters, and the fence repair passes of             *)
(* MarkdownGenerator (doc2md/markdown_generator.py).                       *)
(*                                                                         *)
(* A string is a sequence of one-character strings; the URL scheme with    *)
(* its colon, "https:", is kept as one symbol.  A Markdown text is the     *)
(* sequence of its lines (text.split('\n')).                               *)
(***************************************************************************)
EXTENDS Integers, Sequences, FiniteSets, TLC

VARIABLES
    \* WebCrawler fields (crawler.py 32-51)
    base_url, domain, base_path, max_depth, delay, exclude_urls, exclude_patterns,
    discovered_urls, url_depths, url_links,
    \* locals of WebCrawler.crawl (crawler.py 173-174) and its position
    to_crawl, crawled_content, pc,
    \* the site being crawled and the record of what the crawl did
    web, log, nfail,
    \* a call of is_same_domain / is_excluded and what it returned
    q_url, q_same, q_excl,
    \* the Markdown repair passes: the lines first handed in, the lines the last
    \* pass returned, which pass that was, and the lines that pass was given
    md_in, md_out, md_pc, md_prev,
    \* DocumentConverter: its position, url_mapping (converter.py 64), the files
    \* written under output_dir, the pages whose conversion raised
    cv_pc, url_mapping, documents, conv_raised

vars == << base_url, domain, base_path, max_depth, delay, exclude_urls,
           exclude_patterns, discovered_urls, url_depths, url_links,
           to_crawl, crawled_content, pc, web, log, nfail,
           q_url, q_same, q_excl, md_in, md_out, md_pc, md_prev,
           cv_pc, url_mapping, documents, conv_raised >>

crawlerConfig == << base_url, domain, base_path, max_depth, delay,
                    exclude_urls, exclude_patterns >>
crawlVars == << discovered_urls, url_depths, url_links, to_crawl,
                crawled_content, pc, web, log, nfail >>
queryVars == << q_url, q_same, q_excl >>
mdVars == << md_in, md_out, md_pc, md_prev >>
convVars == << cv_pc, url_mapping, documents, conv_raised >>

----------------------------------------------------------------------------
\* Bounds of the model.

\* longest URL path (in characters) of the URLs handed to the scope filters
MaxPathLen == 4
\* longest path of a base URL / exclude URL handed to the constructor
MaxCfgPathLen == 3
\* largest max_depth the crawl is configured with
MaxDepthCfg == 2
\* most fetch attempts that fail in one crawl run
MaxFailures == 2
\* most lines of a Markdown text handed to a repair pass
MaxLines == 6

None == <<"None">>

----------------------------------------------------------------------------
\* Strings.

Min(S) == CHOOSE x \in S : \A y \in S : x <= y

\* s.startswith(p)
StartsWith(s, p) == Len(p) <= Len(s) /\ SubSeq(s, 1, Len(p)) = p

\* s.endswith(c) for a one-character c
EndsWith(s, c) == Len(s) > 0 /\ s[Len(s)] = c

\* s.rstrip(c): every trailing c removed
RECURSIVE RStrip(_, _)
RStrip(s, c) ==
    IF Len(s) > 0 /\ s[Len(s)] = c THEN RStrip(SubSeq(s, 1, Len(s) - 1), c) ELSE s

\* index of the first character of s that is in set, Len(s) + 1 when there is none
FirstOf(s, set) ==
    LET I == { i \in 1..Len(s) : s[i] \in set }
    IN  IF I = {} THEN Len(s) + 1 ELSE Min(I)

\* all sequences over S of length at most n
RECURSIVE SeqsUpTo(_, _)
SeqsUpTo(S, n) ==
    IF n = 0 THEN { <<>> }
    ELSE LET R == SeqsUpTo(S, n - 1)
         IN  R \cup { Append(r, x) : r \in { q \in R : Len(q) = n - 1 }, x \in S }

Range(s) == { s[i] : i \in 1..Len(s) }

----------------------------------------------------------------------------
\* urllib.parse as crawler.py uses it.

Scheme == "https:"

\* urlparse(url): scheme, netloc (after "//", up to the first of / ? #),
\* then the fragment is cut at the first #, the query at the first ?
urlparse(url) ==
    LET hasScheme == Len(url) > 0 /\ url[1] = Scheme
        r0 == IF hasScheme THEN Tail(url) ELSE url
        hasNet == StartsWith(r0, <<"/", "/">>)
        r1 == IF hasNet THEN SubSeq(r0, 3, Len(r0)) ELSE r0
        n == IF hasNet THEN FirstOf(r1, {"/", "?", "#"}) ELSE 1
        r2 == SubSeq(r1, n, Len(r1))
        h == FirstOf(r2, {"#"})
        r3 == SubSeq(r2, 1, h - 1)
        q == FirstOf(r3, {"?"})
    IN  [ scheme |-> IF hasScheme THEN <<Scheme>> ELSE <<>>,
          netloc |-> SubSeq(r1, 1, n - 1),
          path |-> SubSeq(r3, 1, q - 1),
          query |-> SubSeq(r3, q + 1, Len(r3)),
          fragment |-> SubSeq(r2, h + 1, Len(r2)) ]

\* urlunparse(parts)
urlunparse(p) ==
    LET u0 == IF p.netloc # <<>>
              THEN <<"/", "/">> \o p.netloc \o
                   (IF p.path # <<>> /\ p.path[1] # "/" THEN <<"/">> ELSE <<>>) \o p.path
              ELSE p.path
        u1 == p.scheme \o u0
        u2 == IF p.query # <<>> THEN u1 \o <<"?">> \o p.query ELSE u1
    IN  IF p.fragment # <<>> THEN u2 \o <<"#">> \o p.fragment ELSE u2

\* WebCrawler.normalize_url
normalize_url(url) ==
    urlunparse([ urlparse(url) EXCEPT !.fragment = <<>>, !.query = <<>> ])

----------------------------------------------------------------------------
\* The URL scope filter.

\* crawler.py 63-65: parsed.path.startswith(self.base_path), unless the base
\* path is empty or "/"
PathInScope(path) ==
    IF base_path # <<>> /\ base_path # <<"/">>
    THEN StartsWith(path, base_path)
    ELSE TRUE

\* WebCrawler.is_same_domain
is_same_domain(url) ==
    LET parsed == urlparse(url)
    IN  IF parsed.netloc # domain THEN FALSE ELSE PathInScope(parsed.path)

\* one exclude pattern, as a bug would have it: a plain string prefix
ExcludeMatchPrefix(n, p) == StartsWith(n, p)

\* crawler.py 75-85: the three tests made for one exclude pattern
ExcludeMatch(n, p) ==
    \/ n = p
    \/ EndsWith(p, "/") /\ StartsWith(n, p)
    \/ ~EndsWith(p, "/") /\ StartsWith(n, p \o <<"/">>)

\* crawler.py 74-87: the loop over the patterns, returning at the first match
RECURSIVE ExcludedBy(_, _)
ExcludedBy(n, patterns) ==
    IF patterns = <<>> THEN FALSE
    ELSE IF ExcludeMatch(n, Head(patterns)) THEN TRUE
    ELSE ExcludedBy(n, Tail(patterns))

\* is_excluded of a crawler whose exclude_patterns are patterns
is_excluded_with(patterns, url) == ExcludedBy(normalize_url(url), patterns)

\* WebCrawler.is_excluded
is_excluded(url) == is_excluded_with(exclude_patterns, url)

\* crawler.py 40: the exclude URLs, normalized
NormalizeAll(urls) == [ i \in 1..Len(urls) |-> normalize_url(urls[i]) ]

\* WebCrawler.__init__: the fields a new crawler holds
Construct(b, md, dl, ex) ==
    /\ base_url = RStrip(b, "/")
    /\ domain = urlparse(b).netloc
    /\ base_path = urlparse(b).path
    /\ max_depth = md
    /\ delay = dl
    /\ exclude_urls = ex
    /\ exclude_patterns = NormalizeAll(ex)
    /\ discovered_urls = {}
    /\ url_depths = [ x \in {} |-> 0 ]
    /\ url_links = [ x \in {} |-> 0 ]

----------------------------------------------------------------------------
\* URLs handed to the filters.

Hosts == { <<"x">>, <<"y">> }
PathChars == { "/", "a" }
Suffixes == { <<>>, <<"?", "q">>, <<"#", "f">> }

\* paths: empty, or starting with / and without empty segments
PathsUpTo(n) ==
    { p \in SeqsUpTo(PathChars, n) :
        \/ p = <<>>
        \/ p[1] = "/" /\ \A i \in 1..(Len(p) - 1) : ~(p[i] = "/" /\ p[i + 1] = "/") }

Url(host, path) == <<Scheme, "/", "/">> \o host \o path

Urls == { Url(h, p) \o s : h \in Hosts, p \in PathsUpTo(MaxPathLen), s \in Suffixes }

CfgUrls == { Url(<<"x">>, p) : p \in PathsUpTo(MaxCfgPathLen) }

CfgExcludes ==
    { <<>> } \cup { <<u \o s>> : u \in CfgUrls, s \in Suffixes }
             \cup { <<Url(<<"y">>, <<"/">>), u>> : u \in CfgUrls }

IdleCrawl ==
    /\ to_crawl = <<>> /\ crawled_content = [ x \in {} |-> 0 ] /\ pc = "idle"
    /\ web = <<>> /\ log = <<>> /\ nfail = 0

IdleQuery == q_url = None /\ q_same = FALSE /\ q_excl = FALSE

IdleMd == md_in = <<>> /\ md_out = <<>> /\ md_pc = "idle" /\ md_prev = <<>>

IdleConv ==
    /\ cv_pc = "idle" /\ url_mapping = [ x \in {} |-> 0 ]
    /\ documents = [ x \in {} |-> 0 ] /\ conv_raised = {}

\* a crawler is constructed; nothing has been asked of it
InitScope ==
    /\ \E b \in CfgUrls, ex \in CfgExcludes : Construct(b, 0, 0, ex)
    /\ IdleCrawl /\ IdleQuery /\ IdleMd /\ IdleConv

\* is_same_domain(u) and is_excluded(u) are called (once: the filters are pure)
Query ==
    /\ q_url = None
    /\ \E u \in Urls :
        /\ q_url' = u
        /\ q_same' = is_same_domain(u)
        /\ q_excl' = is_excluded(u)
    /\ UNCHANGED << crawlerConfig, crawlVars, mdVars, convVars >>

NextScope == Query

SpecScope == InitScope /\ [][NextScope]_vars

----------------------------------------------------------------------------
\* The crawl: WebCrawler.crawl and WebCrawler.crawl_page.

EmptyMap == [ x \in {} |-> 0 ]

\* d[k] = v
Put(d, k, v) == [ x \in DOMAIN d \cup {k} |-> IF x = k THEN v ELSE d[x] ]

HostX == <<"x">>
PgRoot == Url(HostX, <<"/", "d">>)
PgRootSlash == Url(HostX, <<"/", "d", "/">>)
PgA == Url(HostX, <<"/", "d", "/", "a">>)
PgAf == PgA \o <<"#", "f">>
PgB == Url(HostX, <<"/", "d", "/", "b">>)
PgC == Url(HostX, <<"/", "d", "/", "c">>)
PgE == Url(HostX, <<"/", "d", "/", "e">>)
PgE2 == Url(HostX, <<"/", "d", "/", "e", "/", "a">>)
PgS == Url(HostX, <<"/", "d", "d">>)
PgO == Url(HostX, <<"/", "o">>)
PgY == Url(<<"y">>, <<"/", "d", "/", "a">>)

Pages == { PgRoot, PgA, PgB, PgC, PgE, PgE2, PgS, PgO, PgY }

\* the sites crawled: for every page, the hrefs of its <a> elements, made
\* absolute (urljoin), in document order
Webs ==
    { [ u \in Pages |->
          IF u = PgRoot THEN r
          ELSE IF u = PgA THEN a
          ELSE IF u = PgB THEN b
          ELSE IF u = PgC THEN c
          ELSE <<>> ] :
        r \in { <<PgA, PgB>>, <<PgAf, PgA, PgB, PgY, PgO, PgE, PgS>> },
        a \in { <<>>, <<PgC>>, <<PgC, PgRoot>>, <<PgB, PgC>> },
        b \in { <<>>, <<PgC>>, <<PgA>> },
        c \in { <<>>, <<PgRoot, PgC, PgE2>> } }

CrawlBases == { PgRoot, PgRootSlash }
CrawlExcludes == { <<>>, <<PgE>>, <<PgRoot>> }

\* WebCrawler.extract_links over the hrefs of a page
RECURSIVE extract_links(_)
extract_links(hrefs) ==
    IF hrefs = <<>> THEN <<>>
    ELSE LET absolute_url == Head(hrefs)
         IN  IF is_same_domain(absolute_url) /\ ~is_excluded(absolute_url)
             THEN <<normalize_url(absolute_url)>> \o extract_links(Tail(hrefs))
             ELSE extract_links(Tail(hrefs))

\* to_crawl.pop(0), as a bug would have it: to_crawl.pop()
PoppedLast(q) == [ entry |-> q[Len(q)], rest |-> SubSeq(q, 1, Len(q) - 1) ]

\* crawler.py 178: to_crawl.pop(0)
Popped(q) == [ entry |-> Head(q), rest |-> Tail(q) ]

\* the depth test, as a bug would have it: one level too deep
DepthExceededLate(depth) == max_depth > 0 /\ depth > max_depth + 1

\* crawler.py 185: the depth limit
DepthExceeded(depth) == max_depth > 0 /\ depth > max_depth

\* the exclusion test of crawl_page, as a bug would have it: left out
CrawlPageSkipsNothing(url) == FALSE

\* crawler.py 137: crawl_page returns None for an excluded URL, before any fetch
CrawlPageSkips(url) == is_excluded(url)

\* crawler.py 196-198: the links of the page not yet discovered, at depth + 1
RECURSIVE NewEntries(_, _, _)
NewEntries(links, depth, seen) ==
    IF links = <<>> THEN <<>>
    ELSE IF Head(links) \notin seen
         THEN << <<Head(links), depth + 1>> >> \o NewEntries(Tail(links), depth, seen)
         ELSE NewEntries(Tail(links), depth, seen)

\* the end of an iteration, as a bug would have it: no sleep
NotSlept(l) == l

\* crawler.py 201-202: time.sleep(self.delay) ends an iteration that did not continue
Slept(l) == IF delay > 0 THEN Append(l, <<"sleep", None, 0>>) ELSE l

CurUrl == Popped(to_crawl).entry[1]
CurDepth == Popped(to_crawl).entry[2]

Looping == pc = "crawl" /\ to_crawl # <<>>

\* the skip of a discovered URL, as a bug would have it: the entry stays on
\* the frontier
SkipDiscoveredStuck ==
    /\ Looping
    /\ CurUrl \in discovered_urls
    /\ UNCHANGED vars

\* crawler.py 181-182
SkipDiscovered ==
    /\ Looping
    /\ CurUrl \in discovered_urls
    /\ to_crawl' = Popped(to_crawl).rest
    /\ log' = Append(log, <<"skip", CurUrl, CurDepth>>)
    /\ UNCHANGED << crawlerConfig, discovered_urls, url_depths, url_links,
                    crawled_content, pc, web, nfail, queryVars, mdVars, convVars >>

\* crawler.py 185-186
DropDepth ==
    /\ Looping
    /\ CurUrl \notin discovered_urls
    /\ DepthExceeded(CurDepth)
    /\ to_crawl' = Popped(to_crawl).rest
    /\ log' = Append(log, <<"drop", CurUrl, CurDepth>>)
    /\ UNCHANGED << crawlerConfig, discovered_urls, url_depths, url_links,
                    crawled_content, pc, web, nfail, queryVars, mdVars, convVars >>

Fetching ==
    /\ Looping
    /\ CurUrl \notin discovered_urls
    /\ ~DepthExceeded(CurDepth)

\* crawler.py 137-139, then 190 (None is falsy) and 201-202
SkipExcluded ==
    /\ Fetching
    /\ CrawlPageSkips(CurUrl)
    /\ to_crawl' = Popped(to_crawl).rest
    /\ log' = Slept(Append(log, <<"excluded", CurUrl, CurDepth>>))
    /\ UNCHANGED << crawlerConfig, discovered_urls, url_depths, url_links,
                    crawled_content, pc, web, nfail, queryVars, mdVars, convVars >>

\* a failed fetch, as a bug would have it: the exception leaves the loop
FetchFailAborts ==
    /\ Fetching
    /\ ~CrawlPageSkips(CurUrl)
    /\ nfail < MaxFailures
    /\ nfail' = nfail + 1
    /\ to_crawl' = <<>>
    /\ pc' = "done"
    /\ log' = Append(log, <<"fetch_fail", CurUrl, CurDepth>>)
    /\ UNCHANGED << crawlerConfig, discovered_urls, url_depths, url_links,
                    crawled_content, web, queryVars, mdVars, convVars >>

\* crawler.py 142-143 raising, 156-161 returning None, then 190 and 201-202
FetchFail ==
    /\ Fetching
    /\ ~CrawlPageSkips(CurUrl)
    /\ nfail < MaxFailures
    /\ nfail' = nfail + 1
    /\ to_crawl' = Popped(to_crawl).rest
    /\ log' = Slept(Append(log, <<"fetch_fail", CurUrl, CurDepth>>))
    /\ UNCHANGED << crawlerConfig, discovered_urls, url_depths, url_links,
                    crawled_content, pc, web, queryVars, mdVars, convVars >>

\* crawler.py 142-154 with an empty response body: the page is recorded, and
\* crawl's "if content:" (190) takes the empty string for no content
FetchEmpty ==
    /\ Fetching
    /\ ~CrawlPageSkips(CurUrl)
    /\ discovered_urls' = discovered_urls \cup {CurUrl}
    /\ url_depths' = Put(url_depths, CurUrl, CurDepth)
    /\ url_links' = Put(url_links, CurUrl, <<>>)
    /\ to_crawl' = Popped(to_crawl).rest
    /\ log' = Slept(Append(log, <<"fetch_empty", CurUrl, CurDepth>>))
    /\ UNCHANGED << crawlerConfig, crawled_content, pc, web, nfail, queryVars, mdVars, convVars >>

\* crawler.py 142-154 succeeding, then 190-198 and 201-202
FetchOk ==
    /\ Fetching
    /\ ~CrawlPageSkips(CurUrl)
    /\ LET links == extract_links(web[CurUrl])
       IN  /\ discovered_urls' = discovered_urls \cup {CurUrl}
           /\ url_depths' = Put(url_depths, CurUrl, CurDepth)
           /\ url_links' = Put(url_links, CurUrl, links)
           /\ crawled_content' = Put(crawled_content, CurUrl, web[CurUrl])
           /\ to_crawl' = Popped(to_crawl).rest
                            \o NewEntries(links, CurDepth, discovered_urls \cup {CurUrl})
    /\ log' = Slept(Append(log, <<"fetch_ok", CurUrl, CurDepth>>))
    /\ UNCHANGED << crawlerConfig, pc, web, nfail, queryVars, mdVars, convVars >>

\* crawler.py 177, 204-205: the frontier is empty, crawl returns crawled_content
Finish ==
    /\ pc = "crawl"
    /\ to_crawl = <<>>
    /\ pc' = "done"
    /\ UNCHANGED << crawlerConfig, discovered_urls, url_depths, url_links, to_crawl,
                    crawled_content, web, log, nfail, queryVars, mdVars, convVars >>

\* a crawler is constructed and crawl() has run up to its loop (crawler.py 173-174)
InitCrawl ==
    /\ \E b \in CrawlBases, md \in 0..MaxDepthCfg, dl \in {0, 1}, ex \in CrawlExcludes :
         Construct(b, md, dl, ex)
    /\ web \in Webs
    /\ to_crawl = << <<base_url, 0>> >>
    /\ crawled_content = EmptyMap
    /\ pc = "crawl"
    /\ log = <<>>
    /\ nfail = 0
    /\ IdleQuery /\ IdleMd /\ IdleConv

NextCrawl ==
    \/ SkipDiscovered
    \/ DropDepth
    \/ SkipExcluded
    \/ FetchFail
    \/ FetchEmpty
    \/ FetchOk
    \/ Finish

SpecCrawl == InitCrawl /\ [][NextCrawl]_vars

\* crawl() with max_depth = 0 (no depth limit) or 1, no delay, nothing or the
\* base URL itself excluded, on every site of Webs: they hold cycles (/d/a and
\* /d/c link to the root), a self-link (/d/c) and duplicate links
InitCrawlLive ==
    /\ \E md \in { 0, 1 }, ex \in { <<>>, <<PgRoot>> } : Construct(PgRoot, md, 0, ex)
    /\ web \in Webs
    /\ to_crawl = << <<base_url, 0>> >>
    /\ crawled_content = EmptyMap
    /\ pc = "crawl"
    /\ log = <<>>
    /\ nfail = 0
    /\ IdleQuery /\ IdleMd /\ IdleConv

\* the loop of crawl() is sequential code and every fetch has a timeout
\* (crawler.py 142), so an iteration that can be made is made
SpecCrawlLive == InitCrawlLive /\ [][NextCrawl]_vars /\ WF_vars(NextCrawl)

----------------------------------------------------------------------------
\* The fence repair passes of MarkdownGenerator.  A line is a string; the
\* lines a text is made of are text.split('\n').

\* the fence line, three backticks, written here with three tildes
Fence == "~~~"

\* the lines texts are made of: a fence, an indented fence, a blank line and
\* two lines of content
LineAlphabet == { Fence, " ~~~", "", "cmd", "adk --version" }

\* line.strip() on the lines above (and on a line of one space)
Strip(line) ==
    CASE line = " ~~~" -> Fence
      [] line = "~~~ " -> Fence
      [] line = " " -> ""
      [] OTHER -> line

\* line.strip() equals the fence
IsFenceLine(line) == Strip(line) = Fence

\* if lines[j].strip(): the line is not blank
IsContentLine(line) == Strip(line) # ""

\* '\n'.join(lines).split('\n'): the lines of the text a list of lines joins to
\* (the empty list joins to the empty text, which is one empty line)
JoinSplit(lines) == IF lines = <<>> THEN <<"">> ELSE lines

\* markdown_generator.py 635-638: the index at which the look-ahead from j stops
RECURSIVE LookAhead(_, _)
LookAhead(lines, j) ==
    IF j <= Len(lines) /\ ~IsFenceLine(lines[j]) THEN LookAhead(lines, j + 1) ELSE j

\* a first loop that rebuilds a block from the first content line alone (what
\* _fix_empty_code_blocks is not: it keeps every content line, 646-648)
RECURSIVE FixEmptyFirstPassLosesContent(_, _, _)
FixEmptyFirstPassLosesContent(lines, i, fixed_lines) ==
    IF i > Len(lines) THEN fixed_lines
    ELSE IF IsFenceLine(lines[i]) /\ i + 1 <= Len(lines) /\ IsFenceLine(lines[i + 1])
    THEN LET j == LookAhead(lines, i + 2)
             content_lines == SelectSeq(SubSeq(lines, i + 2, j - 1), IsContentLine)
         IN  IF content_lines # <<>>
             THEN FixEmptyFirstPassLosesContent(lines, j + 1,
                      fixed_lines \o <<Fence, content_lines[1], Fence>>)
             ELSE FixEmptyFirstPassLosesContent(lines, i + 2, fixed_lines)
    ELSE FixEmptyFirstPassLosesContent(lines, i + 1, Append(fixed_lines, lines[i]))

\* markdown_generator.py 622-654: the first loop of _fix_empty_code_blocks,
\* from index i (counted from 1) with fixed_lines collected so far
RECURSIVE FixEmptyFirstPass(_, _, _)
FixEmptyFirstPass(lines, i, fixed_lines) ==
    IF i > Len(lines) THEN fixed_lines
    ELSE IF IsFenceLine(lines[i]) /\ i + 1 <= Len(lines) /\ IsFenceLine(lines[i + 1])
    THEN LET j == LookAhead(lines, i + 2)
             content_lines == SelectSeq(SubSeq(lines, i + 2, j - 1), IsContentLine)
         IN  IF content_lines # <<>>
             THEN FixEmptyFirstPass(lines, j + 1,
                      fixed_lines \o <<Fence>> \o content_lines \o <<Fence>>)
             ELSE FixEmptyFirstPass(lines, i + 2, fixed_lines)
    ELSE FixEmptyFirstPass(lines, i + 1, Append(fixed_lines, lines[i]))

\* a second loop that removes nothing (what _fix_empty_code_blocks is not)
FixEmptySecondPassSkipped(fixed_lines, i, final_lines) == fixed_lines

\* markdown_generator.py 656-670: the second loop, removing consecutive fences
RECURSIVE FixEmptySecondPass(_, _, _)
FixEmptySecondPass(fixed_lines, i, final_lines) ==
    IF i > Len(fixed_lines) THEN final_lines
    ELSE IF /\ IsFenceLine(fixed_lines[i])
            /\ i + 1 <= Len(fixed_lines)
            /\ IsFenceLine(fixed_lines[i + 1])
    THEN FixEmptySecondPass(fixed_lines, i + 2, final_lines)
    ELSE FixEmptySecondPass(fixed_lines, i + 1, Append(final_lines, fixed_lines[i]))

\* MarkdownGenerator._fix_empty_code_blocks, on the lines of the text
fix_empty_code_blocks(lines) ==
    JoinSplit(FixEmptySecondPass(FixEmptyFirstPass(lines, 1, <<>>), 1, <<>>))

\* a loop that keeps no fence line unless it rebuilds a block (what
\* _fix_orphaned_code_content is not: it keeps a single fence, 726-728)
RECURSIVE FixOrphanedLoopDropsSingle(_, _, _)
FixOrphanedLoopDropsSingle(lines, i, fixed_lines) ==
    IF i > Len(lines) THEN fixed_lines
    ELSE IF IsFenceLine(lines[i])
    THEN IF i + 1 <= Len(lines) /\ IsFenceLine(lines[i + 1])
         THEN LET j == LookAhead(lines, i + 2)
                  content_lines == SelectSeq(SubSeq(lines, i + 2, j - 1), IsContentLine)
              IN  IF content_lines # <<>>
                  THEN FixOrphanedLoopDropsSingle(lines, j,
                           fixed_lines \o <<Fence>> \o content_lines \o <<Fence>>)
                  ELSE FixOrphanedLoopDropsSingle(lines, i + 2, fixed_lines)
         ELSE FixOrphanedLoopDropsSingle(lines, i + 1, fixed_lines)
    ELSE FixOrphanedLoopDropsSingle(lines, i + 1, Append(fixed_lines, lines[i]))

\* markdown_generator.py 698-731: the loop of _fix_orphaned_code_content, from
\* index i (counted from 1) with fixed_lines collected so far
RECURSIVE FixOrphanedLoop(_, _, _)
FixOrphanedLoop(lines, i, fixed_lines) ==
    IF i > Len(lines) THEN fixed_lines
    ELSE IF IsFenceLine(lines[i])
    THEN IF i + 1 <= Len(lines) /\ IsFenceLine(lines[i + 1])
         THEN LET j == LookAhead(lines, i + 2)
                  content_lines == SelectSeq(SubSeq(lines, i + 2, j - 1), IsContentLine)
              IN  IF content_lines # <<>>
                  THEN FixOrphanedLoop(lines, j,
                           fixed_lines \o <<Fence>> \o content_lines \o <<Fence>>)
                  ELSE FixOrphanedLoop(lines, i + 2, fixed_lines)
         ELSE FixOrphanedLoop(lines, i + 1, Append(fixed_lines, lines[i]))
    ELSE FixOrphanedLoop(lines, i + 1, Append(fixed_lines, lines[i]))

\* MarkdownGenerator._fix_orphaned_code_content, on the lines of the text
fix_orphaned_code_content(lines) == JoinSplit(FixOrphanedLoop(lines, 1, <<>>))

\* test_complete_code_block_fix.py 27-32: the input of case 2 and the output
\* the test expects (cmd for Some content, adk --version for More content)
Case2Input == << Fence, Fence, "cmd", Fence, Fence, "adk --version" >>
Case2Expected == << Fence, "cmd", Fence, Fence, "adk --version", Fence >>

\* test_complete_code_block_fix.py 48-53: the input of case 5 and the output
\* the test expects
Case5Input ==
    << "Install with:", Fence, Fence, "pip install adk", Fence, Fence,
       "Check version:", Fence, Fence, "adk --version" >>
Case5Expected ==
    << "Install with:", Fence, "pip install adk", Fence,
       "Check version:", Fence, "adk --version", Fence >>

\* the texts handed to a pass: one to MaxLines lines, and the Install with /
\* Check version text of case 5
MdInputs == (SeqsUpTo(LineAlphabet, MaxLines) \ { <<>> }) \cup { Case5Input }

InitFence ==
    /\ \E b \in { PgRoot } : Construct(b, 0, 0, <<>>)
    /\ IdleCrawl /\ IdleQuery /\ IdleConv
    /\ md_in \in MdInputs
    /\ md_out = <<>>
    /\ md_prev = <<>>
    /\ md_pc = "input"

\* markdown_generator.py 409-411: _fix_empty_code_blocks(md_in) is called
FixEmptyCodeBlocks ==
    /\ md_pc = "input"
    /\ md_prev' = md_in
    /\ md_out' = fix_empty_code_blocks(md_in)
    /\ md_pc' = "fix_empty"
    /\ UNCHANGED << crawlerConfig, crawlVars, queryVars, md_in, convVars >>

\* _fix_empty_code_blocks is called a second time, on its own output
FixEmptyCodeBlocksAgain ==
    /\ md_pc = "fix_empty"
    /\ md_prev' = md_out
    /\ md_out' = fix_empty_code_blocks(md_out)
    /\ md_pc' = "fix_empty_twice"
    /\ UNCHANGED << crawlerConfig, crawlVars, queryVars, md_in, convVars >>

\* markdown_generator.py 413-415: _fix_orphaned_code_content is called on the
\* output of _fix_empty_code_blocks
FixOrphanedCodeContent ==
    /\ md_pc = "fix_empty"
    /\ md_prev' = md_out
    /\ md_out' = fix_orphaned_code_content(md_out)
    /\ md_pc' = "fix_orphaned"
    /\ UNCHANGED << crawlerConfig, crawlVars, queryVars, md_in, convVars >>

NextFence ==
    \/ FixEmptyCodeBlocks
    \/ FixEmptyCodeBlocksAgain
    \/ FixOrphanedCodeContent

SpecFence == InitFence /\ [][NextFence]_vars

\* _fix_orphaned_code_content applied to a text as it is (markdown_generator.py
\* 694-733, the function taken alone)
FixOrphanedOnInput ==
    /\ md_pc = "input"
    /\ md_prev' = md_in
    /\ md_out' = fix_orphaned_code_content(md_in)
    /\ md_pc' = "orphaned"
    /\ UNCHANGED << crawlerConfig, crawlVars, queryVars, md_in, convVars >>

\* _fix_orphaned_code_content applied a second time, to its own output
FixOrphanedAgain ==
    /\ md_pc = "orphaned"
    /\ md_prev' = md_out
    /\ md_out' = fix_orphaned_code_content(md_out)
    /\ md_pc' = "orphaned_twice"
    /\ UNCHANGED << crawlerConfig, crawlVars, queryVars, md_in, convVars >>

NextOrphaned ==
    \/ FixOrphanedOnInput
    \/ FixOrphanedAgain

SpecOrphaned == InitFence /\ [][NextOrphaned]_vars

----------------------------------------------------------------------------
\* MarkdownGenerator._fix_missing_first_lines_v2 (markdown_generator.py 841-890)

\* a line that holds GOOGLE_API_KEY= and the line the pass synthesizes
ApiKeyLine == "GOOGLE_API_KEY=k"
VertexLine == "GOOGLE_GENAI_USE_VERTEXAI=0"

\* 'GOOGLE_API_KEY=' in line
HasApiKey(line) == line = ApiKeyLine

\* 'GOOGLE_GENAI_USE_VERTEXAI=0' in line
HasVertex(line) == line = VertexLine

\* markdown_generator.py 870: any(... for prev_line in lines[max(0, i-3):i]),
\* with i counted from 1
VertexInPrevious(lines, i) ==
    \E k \in 1..(i - 1) : k >= i - 3 /\ HasVertex(lines[k])

\* markdown_generator.py 856-888: the loop, from index i (counted from 1) with
\* fixed_lines collected so far.  At a fence line the line after it is consumed
\* too, whatever it is.
RECURSIVE FixMissingLoop(_, _, _)
FixMissingLoop(lines, i, fixed_lines) ==
    IF i > Len(lines) THEN fixed_lines
    ELSE IF IsFenceLine(lines[i])
    THEN IF /\ i + 1 <= Len(lines)
            /\ HasApiKey(lines[i + 1])
            /\ ~HasVertex(lines[i + 1])
            /\ ~VertexInPrevious(lines, i + 1)
         THEN FixMissingLoop(lines, i + 2,
                  fixed_lines \o << lines[i], VertexLine, lines[i + 1] >>)
         ELSE IF i + 1 <= Len(lines)
         THEN FixMissingLoop(lines, i + 2, fixed_lines \o << lines[i], lines[i + 1] >>)
         ELSE FixMissingLoop(lines, i + 1, Append(fixed_lines, lines[i]))
    ELSE FixMissingLoop(lines, i + 1, Append(fixed_lines, lines[i]))

\* MarkdownGenerator._fix_missing_first_lines_v2, on the lines of the text
fix_missing_first_lines_v2(lines) == JoinSplit(FixMissingLoop(lines, 1, <<>>))

\* the lines the texts handed to the pass are made of
KeyLineAlphabet == { Fence, "", "cmd", ApiKeyLine, VertexLine }

KeyInputs == SeqsUpTo(KeyLineAlphabet, MaxLines) \ { <<>> }

InitMissing ==
    /\ \E b \in { PgRoot } : Construct(b, 0, 0, <<>>)
    /\ IdleCrawl /\ IdleQuery /\ IdleConv
    /\ md_in \in KeyInputs
    /\ md_out = <<>>
    /\ md_prev = <<>>
    /\ md_pc = "input"

\* markdown_generator.py 439-441: _fix_missing_first_lines_v2 is called
FixMissingFirstLinesV2 ==
    /\ md_pc = "input"
    /\ md_prev' = md_in
    /\ md_out' = fix_missing_first_lines_v2(md_in)
    /\ md_pc' = "fix_missing"
    /\ UNCHANGED << crawlerConfig, crawlVars, queryVars, md_in, convVars >>

NextMissing == FixMissingFirstLinesV2

SpecMissing == InitMissing /\ [][NextMissing]_vars

----------------------------------------------------------------------------
\* MarkdownGenerator._clean_markdown (markdown_generator.py 529-555)

\* line.startswith('#'), on the lines of the model
StartsWithHash(line) ==
    line \in { "#!/bin/bash", "#Head", "# !/bin/bash", "# Head" }

\* markdown_generator.py 542: re.sub(r'^(#+)\s*', r'\1 ', line), the leading
\* run of # followed by exactly one space
HeadingSub(line) ==
    CASE line = "#!/bin/bash" -> "# !/bin/bash"
      [] line = "#Head" -> "# Head"
      [] OTHER -> line

\* markdown_generator.py 534-550: the loop over the lines, from index i with
\* cleaned_lines collected so far.  The list regular expression of 545-547
\* replaces its match by itself.
RECURSIVE CleanLoop(_, _, _)
CleanLoop(lines, i, cleaned_lines) ==
    IF i > Len(lines) THEN cleaned_lines
    ELSE IF /\ Strip(lines[i]) = ""
            /\ cleaned_lines # <<>>
            /\ Strip(cleaned_lines[Len(cleaned_lines)]) = ""
    THEN CleanLoop(lines, i + 1, cleaned_lines)
    ELSE CleanLoop(lines, i + 1,
             Append(cleaned_lines,
                    IF StartsWithHash(lines[i]) THEN HeadingSub(lines[i]) ELSE lines[i]))

\* markdown_generator.py 552-553: trailing blank lines are popped
RECURSIVE PopTrailingBlank(_)
PopTrailingBlank(cleaned_lines) ==
    IF cleaned_lines # <<>> /\ Strip(cleaned_lines[Len(cleaned_lines)]) = ""
    THEN PopTrailingBlank(SubSeq(cleaned_lines, 1, Len(cleaned_lines) - 1))
    ELSE cleaned_lines

\* MarkdownGenerator._clean_markdown, on the lines of the text
clean_markdown(lines) == JoinSplit(PopTrailingBlank(CleanLoop(lines, 1, <<>>)))

\* the lines the texts handed to _clean_markdown are made of: a fence, a blank
\* line, a line of code that begins with #, a heading without its space, a
\* line of content
CleanLineAlphabet == { Fence, "", "#!/bin/bash", "#Head", "cmd" }

CleanInputs == SeqsUpTo(CleanLineAlphabet, MaxLines) \ { <<>> }

InitClean ==
    /\ \E b \in { PgRoot } : Construct(b, 0, 0, <<>>)
    /\ IdleCrawl /\ IdleQuery /\ IdleConv
    /\ md_in \in CleanInputs
    /\ md_out = <<>>
    /\ md_prev = <<>>
    /\ md_pc = "input"

\* markdown_generator.py 462: _clean_markdown is called
CleanMarkdown ==
    /\ md_pc = "input"
    /\ md_prev' = md_in
    /\ md_out' = clean_markdown(md_in)
    /\ md_pc' = "clean"
    /\ UNCHANGED << crawlerConfig, crawlVars, queryVars, md_in, convVars >>

NextClean == CleanMarkdown

SpecClean == InitClean /\ [][NextClean]_vars

----------------------------------------------------------------------------
\* MarkdownGenerator.enhance_for_ai_agents (markdown_generator.py 892-961)

\* line.startswith of three backticks, on the lines of the model
StartsWithFence(line) ==
    line \in { Fence, "~~~ ", "~~~bash", "~~~python", "~~~javascript", "~~~java",
               "~~~html", "~~~css", "~~~json", "~~~xml", "~~~yaml" }

\* word in line.lower(), on the lines of the model: a fence line, with or
\* without blanks around it, holds no letter
HoldsWord(line, word) ==
    \/ line = "~~~bash" /\ word = "bash"
    \/ line = "python3 x.py" /\ word \in { "python", "py" }

\* markdown_generator.py 924-943: the fence line a language hint turns line
\* into; the words are looked up in the fence line itself
LanguageFence(line) ==
    CASE HoldsWord(line, "python") \/ HoldsWord(line, "py") -> "~~~python"
      [] HoldsWord(line, "javascript") \/ HoldsWord(line, "js") -> "~~~javascript"
      [] HoldsWord(line, "java") -> "~~~java"
      [] HoldsWord(line, "html") -> "~~~html"
      [] HoldsWord(line, "css") -> "~~~css"
      [] HoldsWord(line, "bash") \/ HoldsWord(line, "shell") -> "~~~bash"
      [] HoldsWord(line, "json") -> "~~~json"
      [] HoldsWord(line, "xml") -> "~~~xml"
      [] HoldsWord(line, "yaml") \/ HoldsWord(line, "yml") -> "~~~yaml"
      [] OTHER -> Fence

\* markdown_generator.py 912-950: the line put out for line i of lines
EnhancedLine(lines, i) ==
    IF /\ StartsWithFence(lines[i])
       /\ Strip(lines[i]) = Fence
       /\ i + 1 <= Len(lines)
       /\ ~StartsWithFence(lines[i + 1])
    THEN LanguageFence(lines[i])
    ELSE lines[i]

\* MarkdownGenerator.enhance_for_ai_agents, on the lines of the text
enhance_for_ai_agents(lines) == [ i \in 1..Len(lines) |-> EnhancedLine(lines, i) ]

\* the lines the texts handed to the enhancement are made of: a fence, a fence
\* with a blank after it, a fence that has its tag, a shell command, a line of
\* Python
EnhanceLineAlphabet == { Fence, "~~~ ", "~~~bash", "adk --version", "python3 x.py" }

EnhanceInputs == SeqsUpTo(EnhanceLineAlphabet, MaxLines) \ { <<>> }

InitEnhance ==
    /\ \E b \in { PgRoot } : Construct(b, 0, 0, <<>>)
    /\ IdleCrawl /\ IdleQuery /\ IdleConv
    /\ md_in \in EnhanceInputs
    /\ md_out = <<>>
    /\ md_prev = <<>>
    /\ md_pc = "input"

\* markdown_generator.py 472-474: enhance_for_ai_agents is called
EnhanceForAiAgents ==
    /\ md_pc = "input"
    /\ md_prev' = md_in
    /\ md_out' = enhance_for_ai_agents(md_in)
    /\ md_pc' = "enhanced"
    /\ UNCHANGED << crawlerConfig, crawlVars, queryVars, md_in, convVars >>

NextEnhance == EnhanceForAiAgents

SpecEnhance == InitEnhance /\ [][NextEnhance]_vars

----------------------------------------------------------------------------
\* MarkdownGenerator._force_triple_backticks (markdown_generator.py 557-606).
\* Here a text is the sequence of its tokens: the two legacy delimiters, a
\* run of three backticks, a piece of text without brackets, a lone opening
\* bracket.  The regular expressions of the function tell nothing else apart
\* (re.DOTALL and [\s\S] make a newline a character like any other).

CodeOpen == "[code]"

CodeClose == "[/code]"

TokenAlphabet == { CodeOpen, CodeClose, Fence, "x", "[" }

\* the texts handed to the pass: one to MaxTokens tokens
MaxTokens == 6

TokenInputs == SeqsUpTo(TokenAlphabet, MaxTokens) \ { <<>> }

\* the index of the first [/code] after index i, or 0: where the non-greedy
\* (.*?)\[/code\] of patterns 1 and 2 ends
NextClose(content, i) ==
    LET S == { k \in (i + 1)..Len(content) : content[k] = CodeClose }
    IN  IF S = {} THEN 0 ELSE CHOOSE k \in S : \A m \in S : k <= m

\* markdown_generator.py 584 and 588: re.sub of \[code\](.*?)\[/code\] by the
\* span between backticks, scanning from index i: the leftmost [code] that
\* has a [/code] after it is matched up to the first such [/code], whatever
\* stands between them, and the scan goes on behind the match
RECURSIVE SubCodeBlocks(_, _, _)
SubCodeBlocks(content, i, out) ==
    IF i > Len(content) THEN out
    ELSE IF content[i] = CodeOpen /\ NextClose(content, i) # 0
    THEN LET k == NextClose(content, i)
         IN  SubCodeBlocks(content, k + 1,
                 out \o <<Fence>> \o SubSeq(content, i + 1, k - 1) \o <<Fence>>)
    ELSE SubCodeBlocks(content, i + 1, Append(out, content[i]))

\* markdown_generator.py 598, the lookahead [^[]*\[/code\]: the first token
\* with a bracket behind index i is a [/code]
ClosedAhead(content, i) ==
    LET S == { k \in (i + 1)..Len(content) : content[k] \in { CodeOpen, CodeClose, "[" } }
    IN  S # {} /\ content[CHOOSE k \in S : \A m \in S : k <= m] = CodeClose

\* markdown_generator.py 598: pattern 3, every [code] not so followed becomes
\* three backticks
SubOrphanedOpen(content) ==
    [ i \in 1..Len(content) |->
        IF content[i] = CodeOpen /\ ~ClosedAhead(content, i) THEN Fence ELSE content[i] ]

IsNotCodeClose(t) == t # CodeClose

\* markdown_generator.py 601: pattern 4, every [/code] is removed
RemoveCodeClose(content) == SelectSeq(content, IsNotCodeClose)

\* MarkdownGenerator._force_triple_backticks
force_triple_backticks(content) ==
    IF Fence \in Range(content) /\ CodeOpen \notin Range(content) THEN content
    ELSE IF CodeOpen \in Range(content)
    THEN RemoveCodeClose(SubOrphanedOpen(
             SubCodeBlocks(SubCodeBlocks(content, 1, <<>>), 1, <<>>)))
    ELSE content

InitLegacy ==
    /\ \E b \in { PgRoot } : Construct(b, 0, 0, <<>>)
    /\ IdleCrawl /\ IdleQuery /\ IdleConv
    /\ md_in \in TokenInputs
    /\ md_out = <<>>
    /\ md_prev = <<>>
    /\ md_pc = "input"

\* markdown_generator.py 421-423: _force_triple_backticks(md_in) is called
ForceTripleBackticks ==
    /\ md_pc = "input"
    /\ md_prev' = md_in
    /\ md_out' = force_triple_backticks(md_in)
    /\ md_pc' = "force_backticks"
    /\ UNCHANGED << crawlerConfig, crawlVars, queryVars, md_in, convVars >>

NextLegacy == ForceTripleBackticks

SpecLegacy == InitLegacy /\ [][NextLegacy]_vars

----------------------------------------------------------------------------
\* The passes of MarkdownGenerator.generate_markdown in their order
\* (markdown_generator.py 409-474), on the lines of the text html2text put out.

\* the longest such text
MaxBodyLines == 4

\* content.split of a text into the tokens of _force_triple_backticks: a line
\* of the model is one token, a blank line none, and the newline between two
\* lines is a token without a bracket
RECURSIVE TokensOf(_, _)
TokensOf(lines, i) ==
    IF i > Len(lines) THEN <<>>
    ELSE (IF i > 1 THEN << "\n" >> ELSE <<>>)
             \o (IF lines[i] = "" THEN <<>> ELSE << lines[i] >>)
             \o TokensOf(lines, i + 1)

\* the lines of a text of tokens, from token i with the line cur begun; no
\* pattern of _force_triple_backticks puts two tokens on one line here
RECURSIVE LinesOf(_, _, _)
LinesOf(content, i, cur) ==
    IF i > Len(content) THEN << cur >>
    ELSE IF content[i] = "\n" THEN << cur >> \o LinesOf(content, i + 1, "")
    ELSE LinesOf(content, i + 1, content[i])

\* MarkdownGenerator._force_triple_backticks, on the lines of the text
force_triple_backticks_lines(lines) ==
    LinesOf(force_triple_backticks(TokensOf(lines, 1)), 1, "")

\* the lines html2text puts out here: a fence, a blank line, a line of content
\* and the two legacy delimiters
BodyLineAlphabet == { Fence, "", "cmd", CodeOpen, CodeClose }

BodyInputs == SeqsUpTo(BodyLineAlphabet, MaxBodyLines) \ { <<>> }

\* str.split of a value extract_metadata found (get_text().strip() and the
\* content attribute keep the newlines inside the text): plain values, and a
\* title that runs over five lines, the three in the middle blank
PlainTitle == << "T" >>
SpreadTitle == << "A", "", "", "", "B" >>

\* the dictionaries extract_metadata returns here (markdown_generator.py
\* 235-258): nothing, a title, an h1 only, a spread title, a title and a meta
\* tag
Metadatas ==
    { EmptyMap,
      [ title |-> PlainTitle ],
      [ main_heading |-> PlainTitle ],
      [ title |-> SpreadTitle ],
      [ title |-> PlainTitle, description |-> << "D" >> ] }

\* f"# {value}": the lines of the heading of a value
HeadingLines(value) ==
    << CASE value[1] = "T" -> "# T"
         [] value[1] = "A" -> "# A"
         [] OTHER -> "# Untitled Page" >> \o Tail(value)

\* markdown_generator.py 499-527: header_lines of _generate_header, for the
\* root page
header_lines(metadata) ==
    << "<!-- Original URL: https://x/d -->", "" >>
        \o (IF "title" \in DOMAIN metadata THEN HeadingLines(metadata.title)
            ELSE IF "main_heading" \in DOMAIN metadata
            THEN HeadingLines(metadata.main_heading)
            ELSE << "# Untitled Page" >>)
        \o << "" >>
        \o (IF "description" \in DOMAIN metadata
            THEN << "## Metadata", "- **description**: D", "" >>
            ELSE <<>>)

\* header + cleaned_markdown (markdown_generator.py 473): the text of the
\* header ends with the newline before its last line, which is empty, so the
\* body starts on that line
HeaderPlusBody(header, body) == SubSeq(header, 1, Len(header) - 1) \o body

InitGenerate ==
    /\ \E b \in { PgRoot } : Construct(b, 0, 0, <<>>)
    /\ IdleCrawl /\ IdleQuery /\ IdleConv
    /\ md_in \in BodyInputs
    /\ md_out = <<>>
    /\ md_prev = <<>>
    /\ md_pc = "input"

\* markdown_generator.py 439: _fix_missing_first_lines_v2, after the two
\* fence passes
GenerateFixMissing ==
    /\ md_pc = "fix_orphaned"
    /\ md_out' = fix_missing_first_lines_v2(md_out)
    /\ md_pc' = "fix_missing_v2"
    /\ UNCHANGED << crawlerConfig, crawlVars, queryVars, md_in, md_prev, convVars >>

\* markdown_generator.py 449: _force_triple_backticks
GenerateForceBackticks ==
    /\ md_pc = "fix_missing_v2"
    /\ md_out' = force_triple_backticks_lines(md_out)
    /\ md_pc' = "forced"
    /\ UNCHANGED << crawlerConfig, crawlVars, queryVars, md_in, md_prev, convVars >>

\* markdown_generator.py 452: header = self._generate_header(metadata, url);
\* md_prev holds the lines of the header from here on
GenerateHeader ==
    /\ md_pc = "forced"
    /\ \E metadata \in Metadatas : md_prev' = header_lines(metadata)
    /\ md_pc' = "header"
    /\ UNCHANGED << crawlerConfig, crawlVars, queryVars, md_in, md_out, convVars >>

\* markdown_generator.py 462: cleaned_markdown = self._clean_markdown(...)
GenerateClean ==
    /\ md_pc = "header"
    /\ md_out' = clean_markdown(md_out)
    /\ md_pc' = "cleaned"
    /\ UNCHANGED << crawlerConfig, crawlVars, queryVars, md_in, md_prev, convVars >>

\* markdown_generator.py 472-482: enhance_for_ai_agents(header +
\* cleaned_markdown) is returned (optimize_for_ai is True)
GenerateEnhance ==
    /\ md_pc = "cleaned"
    /\ md_out' = enhance_for_ai_agents(HeaderPlusBody(md_prev, md_out))
    /\ md_pc' = "generated"
    /\ UNCHANGED << crawlerConfig, crawlVars, queryVars, md_in, md_prev, convVars >>

NextGenerate ==
    \/ FixEmptyCodeBlocks
    \/ FixOrphanedCodeContent
    \/ GenerateFixMissing
    \/ GenerateForceBackticks
    \/ GenerateHeader
    \/ GenerateClean
    \/ GenerateEnhance

SpecGenerate == InitGenerate /\ [][NextGenerate]_vars

----------------------------------------------------------------------------
\* DocumentConverter (converter.py) and the documents of
\* MarkdownGenerator.generate_markdown.  A document is the sequence of its
\* lines, a line a sequence of pieces of text; <<>> is a blank line.

\* str.lstrip(c)
RECURSIVE LStrip(_, _)
LStrip(s, c) == IF Len(s) > 0 /\ s[1] = c THEN LStrip(Tail(s), c) ELSE s

\* parsed.path.strip('/')
StripSlashes(path) == LStrip(RStrip(path, "/"), "/")

\* markdown_generator.py 975: the characters [a-zA-Z0-9\-_] among those URLs
\* are made of here
IsFilenameChar(c) == c \notin { "/", "#", "?", ".", ":" }

\* markdown_generator.py 968-981: the file name made of parsed.path.strip('/')
\* (no path here ends in an extension)
FilenameOfPath(path) ==
    IF path = <<>> THEN << "index" >>
    ELSE [ i \in 1..Len(path) |-> IF IsFilenameChar(path[i]) THEN path[i] ELSE "_" ]

\* MarkdownGenerator.get_filename_from_url
get_filename_from_url(url) == FilenameOfPath(StripSlashes(urlparse(url).path))

\* converter.py 104-126: the local path of one discovered URL; filename is
\* get_filename_from_url(url)
LocalPath(url) ==
    LET path == StripSlashes(urlparse(url).path)
        filename == FilenameOfPath(path)
        slashes == { i \in 1..Len(path) : path[i] = "/" }
    IN  IF slashes # {}
        THEN LET last == CHOOSE i \in slashes : \A k \in slashes : k <= i
                 folder_path == SubSeq(path, 1, last - 1)
             IN  IF folder_path # <<>>
                 THEN folder_path \o << "/" >> \o filename \o << ".md" >>
                 ELSE filename \o << ".md" >>
        ELSE filename \o << ".md" >>

\* DocumentConverter._generate_file_paths
generate_file_paths == [ url \in discovered_urls |-> LocalPath(url) ]

\* MarkdownGenerator.extract_metadata: the keys it finds in a page (the root
\* has a <title> and an <h1>, /d/a an <h1> only, the other pages neither)
extract_metadata(url) ==
    IF url \in { PgRoot, PgRootSlash } THEN { "title", "main_heading" }
    ELSE IF url = PgA THEN { "main_heading" }
    ELSE {}

\* markdown_generator.py 504: the line recording the original URL
OriginalUrlComment(url) == << "<!-- Original URL: " >> \o url \o << " -->" >>

\* MarkdownGenerator._generate_header
generate_header(metadata, url) ==
    << OriginalUrlComment(url),
       <<>>,
       IF "title" \in metadata THEN << "# ", "title" >>
       ELSE IF "main_heading" \in metadata THEN << "# ", "main_heading" >>
       ELSE << "# ", "Untitled Page" >>,
       <<>> >>

\* markdown_generator.py 497: the document returned when a stage raised
ErrorDocument(url) ==
    << << "# Error converting page" >>, <<>>, << "Failed to convert " >> \o url >>

\* MarkdownGenerator.generate_markdown: the header and the repaired body (the
\* body starts on the last line of the header, which is empty), or,
\* when a stage between clean_html and enhance_for_ai_agents raises, the
\* document of the except clause
generate_markdown(url, raises) ==
    IF raises THEN ErrorDocument(url)
    ELSE LET header == generate_header(extract_metadata(url), url)
         IN  SubSeq(header, 1, Len(header) - 1)
                 \o << header[Len(header)] \o << "body" >> >>

\* a generate_markdown without the except clause, as a bug would have it: the
\* exception leaves _save_markdown_files and nothing more is written
SaveUntilRaise(mapping, raising) ==
    IF raising = {} THEN DOMAIN crawled_content \cap DOMAIN mapping ELSE {}

\* converter.py 145-146: the pages _save_markdown_files converts and writes
SavedPages(mapping, raising) == DOMAIN crawled_content \cap DOMAIN mapping

\* converter.py 145-160: the files after _save_markdown_files, mapping being
\* self.url_mapping; where two pages have one local path the page written last
\* stays
SavedFiles(mapping, raising) ==
    LET saved == SavedPages(mapping, raising)
        paths == { mapping[u] : u \in saved }
    IN  IF \A u, v \in saved : mapping[u] = mapping[v] => u = v
        THEN { [ p \in paths |->
                   LET u == CHOOSE v \in saved : mapping[v] = p
                   IN  generate_markdown(u, u \in raising) ] }
        ELSE { [ p \in paths |-> generate_markdown(w[p], w[p] \in raising) ] :
                 w \in { x \in [ paths -> saved ] : \A p \in paths : mapping[x[p]] = p } }

\* the class bound to the name MarkdownGenerator in converter.py when line 59
\* runs: the one of markdown_generator.py, or one whose __init__ takes the
\* keywords of line 59 and that is otherwise the same (tests/test_converter.py
\* 193 substitutes the name)
GeneratorClasses == { "MarkdownGenerator", "accepting" }

\* markdown_generator.py 21: __init__(self, base_url, optimize_for_ai=True)
AcceptsConverterKeywords(class) == class # "MarkdownGenerator"

\* the sites converted: the root links to two pages in scope and to one out of
\* it (another host, another directory, a directory whose name begins with
\* the base path)
OutOfScopePages == { PgY, PgO, PgS }

ConvertWebs ==
    { [ u \in Pages |->
          IF u = PgRoot THEN << PgA, PgB, o >>
          ELSE IF u = PgA THEN a
          ELSE <<>> ] :
        o \in OutOfScopePages, a \in { <<>>, << PgB, PgC >> } }

\* DocumentConverter(base_url, max_depth = md, delay = 0, exclude_urls = ex)
\* has built its WebCrawler (converter.py 45-58)
InitConvert ==
    /\ \E md \in { 1, MaxDepthCfg }, ex \in { <<>>, << PgRoot >> } :
         Construct(PgRoot, md, 0, ex)
    /\ web \in ConvertWebs
    /\ to_crawl = <<>>
    /\ crawled_content = EmptyMap
    /\ pc = "idle"
    /\ log = <<>>
    /\ nfail = 0
    /\ IdleQuery /\ IdleMd
    /\ cv_pc = "init"
    /\ url_mapping = EmptyMap
    /\ documents = EmptyMap
    /\ conv_raised = {}

\* converter.py 59: MarkdownGenerator(base_url, optimize_for_ai=True,
\* raw_output=..., ai_optimization_level=..., force_triple_backticks=...,
\* reduce_empty_lines=...), then 60-71
DocumentConverterInit ==
    /\ cv_pc = "init"
    /\ \E class \in GeneratorClasses :
         cv_pc' = IF AcceptsConverterKeywords(class) THEN "constructed" ELSE "TypeError"
    /\ UNCHANGED << crawlerConfig, crawlVars, queryVars, mdVars,
                    url_mapping, documents, conv_raised >>

\* converter.py 171-180 and crawler.py 173-174: convert() calls crawl()
ConvertStartsCrawl ==
    /\ cv_pc = "constructed"
    /\ cv_pc' = "crawl"
    /\ to_crawl' = << <<base_url, 0>> >>
    /\ crawled_content' = EmptyMap
    /\ pc' = "crawl"
    /\ UNCHANGED << crawlerConfig, discovered_urls, url_depths, url_links, web, log,
                    nfail, queryVars, mdVars, url_mapping, documents, conv_raised >>

\* converter.py 182-183 and 212-214: crawl() returned nothing
ConvertNoContent ==
    /\ cv_pc = "crawl"
    /\ pc = "done"
    /\ DOMAIN crawled_content = {}
    /\ cv_pc' = "RuntimeError"
    /\ UNCHANGED << crawlerConfig, crawlVars, queryVars, mdVars,
                    url_mapping, documents, conv_raised >>

\* converter.py 185-210: file paths, _save_markdown_files, the summary.  The
\* pages whose conversion raises are an input.
ConvertSaves ==
    /\ cv_pc = "crawl"
    /\ pc = "done"
    /\ DOMAIN crawled_content # {}
    /\ url_mapping' = generate_file_paths
    /\ \E raising \in SUBSET DOMAIN crawled_content :
         /\ conv_raised' = raising
         /\ documents' \in SavedFiles(url_mapping', raising)
    /\ cv_pc' = "success"
    /\ UNCHANGED << crawlerConfig, crawlVars, queryVars, mdVars >>

NextConvert ==
    \/ DocumentConverterInit
    \/ ConvertStartsCrawl
    \/ NextCrawl
    \/ ConvertNoContent
    \/ ConvertSaves

SpecConvert == InitConvert /\ [][NextConvert]_vars

----------------------------------------------------------------------------
\* Claims about the crawl (checked under SpecCrawl).  A log entry is
\* <<what happened, url, depth>>.

FetchOps == { "fetch_ok", "fetch_empty", "fetch_fail" }

IsFetch(e) == e[1] \in FetchOps

\* the HTTP fetches made so far, in order
Fetches == SelectSeq(log, IsFetch)

FetchedUrls == [ i \in 1..Len(Fetches) |-> Fetches[i][2] ]

\* C1: a URL placed on the frontier more than once is fetched exactly once: no
\* URL receives a second HTTP fetch.
C1_EachUrlFetchedOnce ==
    \A i, j \in 1..Len(Fetches) : i # j => Fetches[i][2] # Fetches[j][2]

\* C2: after a failed fetch of a URL no further fetch of that URL is issued in
\* the run, even when pages fetched later link to it.
C2_FailedFetchNeverRetried ==
    \A i \in 1..Len(log) :
        log[i][1] = "fetch_fail" =>
            \A j \in (i + 1)..Len(log) : ~(IsFetch(log[j]) /\ log[j][2] = log[i][2])

\* C3: the frontier is popped first in, first out, so pages are fetched in
\* non-decreasing depth order and nothing waiting on the frontier is shallower
\* than a page already fetched; for a root with children A, B and a grandchild
\* C under A the fetch order is root, A, B, C.
C3_BreadthFirstOrder ==
    /\ \A i, j \in 1..Len(Fetches) : i < j => Fetches[i][3] <= Fetches[j][3]
    /\ \A i, j \in 1..Len(to_crawl) : i < j => to_crawl[i][2] <= to_crawl[j][2]
    /\ \A i \in 1..Len(Fetches), k \in 1..Len(to_crawl) : Fetches[i][3] <= to_crawl[k][2]
    /\ ( /\ web[PgRoot] = <<PgA, PgB>> /\ web[PgA] = <<PgC>>
         /\ web[PgB] = <<>> /\ web[PgC] = <<>>
         /\ exclude_urls = <<>> /\ max_depth # 1
         /\ \A i \in 1..Len(Fetches) : Fetches[i][1] = "fetch_ok" )
       => /\ Len(Fetches) <= 4
          /\ FetchedUrls = SubSeq(<<PgRoot, PgA, PgB, PgC>>, 1, Len(Fetches))
          /\ pc = "done" => Len(Fetches) = 4

\* C3 witness: crawl returned after fetching root, A, B, C at depths 0, 1, 1, 2
C3_Witness ==
    /\ pc = "done"
    /\ Fetches = << <<"fetch_ok", PgRoot, 0>>, <<"fetch_ok", PgA, 1>>,
                    <<"fetch_ok", PgB, 1>>, <<"fetch_ok", PgC, 2>> >>

\* C4: with max_depth > 0 an entry deeper than max_depth is dropped, never
\* fetched, so every fetched page has depth <= max_depth; with max_depth = 0
\* no entry is dropped for its depth.
C4_DepthCutoff ==
    /\ max_depth > 0 =>
         /\ \A i \in 1..Len(Fetches) : Fetches[i][3] <= max_depth
         /\ \A u \in DOMAIN url_depths : url_depths[u] <= max_depth
         /\ \A i \in 1..Len(log) :
               (log[i][1] # "sleep" /\ log[i][3] > max_depth)
                   => log[i][1] \in { "drop", "skip" }
    /\ max_depth = 0 => \A i \in 1..Len(log) : log[i][1] # "drop"

\* C4 witness: with max_depth = 1 a page was fetched at depth 1 and an entry of
\* depth 2 was dropped
C4_Witness ==
    /\ max_depth = 1
    /\ \E i \in 1..Len(log) : log[i][1] = "fetch_ok" /\ log[i][3] = 1
    /\ \E i \in 1..Len(log) : log[i][1] = "drop" /\ log[i][3] = 2

\* C5: a URL for which is_excluded holds is never fetched, as the root or as a
\* discovered link, also when it is in scope, and is never recorded in
\* discovered_urls or in the result.
C5_ExcludedNeverFetched ==
    /\ \A i \in 1..Len(Fetches) : ~is_excluded(Fetches[i][2])
    /\ \A u \in discovered_urls \cup DOMAIN crawled_content \cup DOMAIN url_depths :
          ~is_excluded(u)
    /\ \A u \in DOMAIN url_links : \A i \in 1..Len(url_links[u]) :
          ~is_excluded(url_links[u][i])

\* C5 witness: the root is in scope and excluded, crawl_page was called for it,
\* and crawl returned
C5_Witness ==
    /\ pc = "done"
    /\ is_same_domain(base_url) /\ is_excluded(base_url)
    /\ Len(log) > 0 /\ log[1] = <<"excluded", base_url, 0>>

\* the other case of C5: a page was fetched that links to an in-scope excluded
\* URL, and crawl returned
C5_LinkCase ==
    /\ pc = "done"
    /\ \E u \in DOMAIN crawled_content : \E i \in 1..Len(web[u]) :
          is_same_domain(web[u][i]) /\ is_excluded(web[u][i])

\* the step just taken recorded a failed fetch
FailStep ==
    /\ Len(log') > Len(log)
    /\ log'[Len(log) + 1][1] = "fetch_fail"

----------------------------------------------------------------------------
\* Claims about the scope filters (checked under SpecScope).

\* the URL as a string, cut before its first ? or #
StripQueryFragment(u) == SubSeq(u, 1, FirstOf(u, {"?", "#"}) - 1)

XASlash == Url(<<"x">>, <<"/", "a", "/">>)
XAA == Url(<<"x">>, <<"/", "a", "a">>)
XASlashA == Url(<<"x">>, <<"/", "a", "/", "a">>)

\* C7: is_same_domain(u) is true iff u's authority is the base domain and u's
\* path is the base path (taken without its trailing slash) or lies beneath it
\* as a path segment: /a is in scope for base /a/, the sibling /aa is not in
\* scope for base /a.
C7_SameDomainIffUnderBasePath ==
    q_url # None =>
        LET parsed == urlparse(q_url)
            stored == RStrip(base_path, "/")
        IN  q_same <=> /\ parsed.netloc = domain
                       /\ \/ parsed.path = stored
                          \/ StartsWith(parsed.path, stored \o <<"/">>)

OtherSpelling(e) == IF EndsWith(e, "/") THEN SubSeq(e, 1, Len(e) - 1) ELSE e \o <<"/">>

\* C9: an exclude pattern written with a trailing slash and the same pattern
\* written without it exclude exactly the same URLs.
C9_TrailingSlashSpellingsAgree ==
    ( /\ q_url # None
      /\ Len(exclude_urls) = 1
      /\ StripQueryFragment(exclude_urls[1]) = exclude_urls[1] )
    => q_excl = is_excluded_with(NormalizeAll(<<OtherSpelling(exclude_urls[1])>>), q_url)

----------------------------------------------------------------------------
\* Claims about the fence repair passes (checked under SpecFence).

Count(lines, t) == Cardinality({ i \in 1..Len(lines) : lines[i] = t })

FencesBefore(lines, k) == Cardinality({ i \in 1..(k - 1) : IsFenceLine(lines[i]) })

\* the lines c stand together in out between an opening fence and its closing
\* fence, and each of them is in out as often as in inp
InOneFencePair(inp, out, c) ==
    /\ \E k \in 1..Len(out) :
          /\ k + Len(c) + 1 <= Len(out)
          /\ IsFenceLine(out[k])
          /\ FencesBefore(out, k) % 2 = 0
          /\ SubSeq(out, k + 1, k + Len(c)) = c
          /\ IsFenceLine(out[k + Len(c) + 1])
    /\ \A i \in 1..Len(c) : Count(out, c[i]) = Count(inp, c[i])

\* the non-blank lines that follow the fence pair at i, i + 1 of inp, up to the
\* next fence or the end
OrphanedAfter(inp, i) ==
    SelectSeq(SubSeq(inp, i + 2, LookAhead(inp, i + 2) - 1), IsContentLine)

\* C10: whenever the input holds a fence line (one that opens a block, an even
\* number of fences before it), directly a second fence line and then content
\* lines (up to a fence or the end), the output of
\* _fix_empty_code_blocks holds those lines inside exactly one open/close fence
\* pair, none outside a fence, none duplicated.
C10_OrphanedContentFenced ==
    md_pc = "fix_empty" =>
        \A i \in 1..(Len(md_in) - 1) :
            ( /\ IsFenceLine(md_in[i])
              /\ FencesBefore(md_in, i) % 2 = 0
              /\ IsFenceLine(md_in[i + 1])
              /\ OrphanedAfter(md_in, i) # <<>> )
            => InOneFencePair(md_in, md_out, OrphanedAfter(md_in, i))

\* the example of C10: cmd, fence, fence, adk --version
C10_Example ==
    (md_pc = "fix_empty" /\ md_in = <<"cmd", Fence, Fence, "adk --version">>)
        => md_out = <<"cmd", Fence, "adk --version", Fence>>

\* C11: when the input holds several empty fence pairs, each followed by its own
\* content and separated by a fence line, _fix_empty_code_blocks puts every
\* content run into its own fence pair and the fences of the output are
\* balanced: case 2 (fence, fence, content, fence, fence, content) becomes
\* fence, content, fence, fence, content, fence, and the Install with / Check
\* version text of case 5 becomes its expected output.
C11_SeveralEmptyPairs ==
    md_pc = "fix_empty" =>
        /\ md_in = Case2Input => md_out = Case2Expected
        /\ md_in = Case5Input => md_out = Case5Expected
        /\ md_in \in { Case2Input, Case5Input } => FencesBefore(md_out, Len(md_out) + 1) % 2 = 0

\* the text holds a fence line directly followed by another fence line
AdjacentFences(lines) ==
    \E i \in 1..(Len(lines) - 1) : IsFenceLine(lines[i]) /\ IsFenceLine(lines[i + 1])

\* C12: _fix_empty_code_blocks is idempotent: its output holds no fence line
\* directly followed by a fence line, and applying it to its own output returns
\* that output unchanged.
C12_FixEmptyIdempotent ==
    /\ md_pc = "fix_empty" => ~AdjacentFences(md_out)
    /\ md_pc = "fix_empty_twice" => md_out = md_prev

\* the second application ran on a text that the first one had changed, and
\* that still holds fences
C12_Witness ==
    /\ md_pc = "fix_empty_twice"
    /\ md_prev # md_in
    /\ AdjacentFences(md_in)
    /\ \E i \in 1..Len(md_prev) : IsFenceLine(md_prev[i])
    /\ md_out = md_prev

\* C13: _fix_orphaned_code_content applied to the output of
\* _fix_empty_code_blocks returns it unchanged.
C13_OrphanedAfterFixEmptyNoOp ==
    md_pc = "fix_orphaned" => md_out = md_prev

\* _fix_orphaned_code_content ran on a text that _fix_empty_code_blocks had
\* rebuilt into a block, fences and content in it
C13_Witness ==
    /\ md_pc = "fix_orphaned"
    /\ md_in = << "cmd", Fence, Fence, "adk --version" >>
    /\ md_prev = << "cmd", Fence, "adk --version", Fence >>
    /\ md_out = md_prev

\* the text tokens of a text: all but the legacy delimiters and the backticks
IsTextToken(t) == t \notin { CodeOpen, CodeClose, Fence }

\* the text holds a [code] and, somewhere behind it, a [/code]
HasCodeSpan(content) ==
    \E i \in 1..Len(content) : content[i] = CodeOpen /\ NextClose(content, i) # 0

NoLegacyDelimiter(content) ==
    CodeOpen \notin Range(content) /\ CodeClose \notin Range(content)

\* C14: for every input that holds [code] ... [/code], any number of the
\* delimiters in any arrangement, nested ones included, the output of
\* _force_triple_backticks holds no [code] and no [/code], and the text between
\* the delimiters is unchanged.
C14_LegacySyntaxEliminated ==
    (md_pc = "force_backticks" /\ HasCodeSpan(md_in)) =>
        /\ NoLegacyDelimiter(md_out)
        /\ SelectSeq(md_out, IsTextToken) = SelectSeq(md_in, IsTextToken)

\* C15: for an input that holds a [code] and no [/code], or a [/code] and no
\* [code], with or without backtick fences elsewhere, the output of
\* _force_triple_backticks holds neither [code] nor [/code].
C15_UnterminatedAndOrphanedRewritten ==
    ( /\ md_pc = "force_backticks"
      /\ \/ CodeOpen \in Range(md_in) /\ CodeClose \notin Range(md_in)
         \/ CodeClose \in Range(md_in) /\ CodeOpen \notin Range(md_in) )
    => NoLegacyDelimiter(md_out)

\* the half of C15 about a [code] with no [/code]: it is rewritten
C15_UnterminatedRewritten ==
    ( /\ md_pc = "force_backticks"
      /\ CodeOpen \in Range(md_in) /\ CodeClose \notin Range(md_in) )
    => NoLegacyDelimiter(md_out)

IsSleep(e) == e[1] = "sleep"

\* C20: when delay > 0, the fetch attempts of a crawl run are made one after
\* the other and between any two of them time.sleep(delay) is called at least
\* once, whether the earlier attempt succeeded or failed.
C20_SleepBetweenFetchAttempts ==
    delay > 0 =>
        \A i, j \in 1..Len(log) :
            (i < j /\ IsFetch(log[i]) /\ IsFetch(log[j])) =>
                \E k \in (i + 1)..(j - 1) : IsSleep(log[k])

\* with delay > 0, a fetch attempt failed and another fetch was made after it
C20_Witness ==
    /\ delay > 0
    /\ \E i, j \in 1..Len(log) :
          /\ i < j
          /\ log[i][1] = "fetch_fail"
          /\ IsFetch(log[j])
          /\ \E k \in (i + 1)..(j - 1) : IsSleep(log[k])

\* the run of the converter is over
ConvertOver == cv_pc \in { "TypeError", "RuntimeError", "success" }

\* the pages with the local path p
PagesAt(p) == { u \in DOMAIN crawled_content : LocalPath(u) = p }

HeadedBy(doc, url) ==
    /\ Len(doc) >= 3
    /\ doc[1] = OriginalUrlComment(url)
    /\ Len(doc[3]) = 2 /\ doc[3][1] = "# "

\* C17: every document generate_markdown returns for a crawled URL begins
\* with the comment line that records the URL of the page, followed by a title
\* heading, before the body.
C17_DocumentHeadedByOriginalUrl ==
    cv_pc = "success" =>
        \A p \in DOMAIN documents : \E u \in PagesAt(p) : HeadedBy(documents[p], u)

\* C17 for the documents of pages whose conversion did not raise
C17_ConvertedPagesHeaded ==
    cv_pc = "success" =>
        \A p \in DOMAIN documents :
            PagesAt(p) \cap conv_raised = {} =>
                \E u \in PagesAt(p) : HeadedBy(documents[p], u)

\* the run of C18: max_depth = 1, the root links to two pages in scope and one
\* out of scope, and no fetch failed or came back empty
C18_Scenario ==
    /\ max_depth = 1
    /\ exclude_urls = <<>>
    /\ \E o \in OutOfScopePages : web[PgRoot] = << PgA, PgB, o >>
    /\ \A i \in 1..Len(Fetches) : Fetches[i][1] = "fetch_ok"

\* C18: in that run the conversion fetches exactly three pages, the root and
\* the two pages in scope, never the page out of scope, and writes three
\* documents, each headed by the comment of its URL.
C18_EndToEnd ==
    (ConvertOver /\ C18_Scenario) =>
        /\ Len(Fetches) = 3
        /\ Range(FetchedUrls) = { PgRoot, PgA, PgB }
        /\ Cardinality(DOMAIN documents) = 3
        /\ \A u \in { PgRoot, PgA, PgB } :
              /\ LocalPath(u) \in DOMAIN documents
              /\ HeadedBy(documents[LocalPath(u)], u)

\* C18 where the converter could be built, the page out of scope is on another
\* host or in another directory, and no conversion raised
C18_WhenConstructed ==
    (cv_pc = "success" /\ C18_Scenario /\ web[PgRoot][3] # PgS /\ conv_raised = {}) =>
        /\ Len(Fetches) = 3
        /\ Range(FetchedUrls) = { PgRoot, PgA, PgB }
        /\ Cardinality(DOMAIN documents) = 3
        /\ \A u \in { PgRoot, PgA, PgB } :
              /\ LocalPath(u) \in DOMAIN documents
              /\ HeadedBy(documents[LocalPath(u)], u)

\* a fetch that got a 2xx answer: with a body or with an empty one
IsSuccessfulFetch(e) == e[1] \in { "fetch_ok", "fetch_empty" }

\* C19: convert() raises the RuntimeError of line 183 exactly when no page was
\* fetched successfully during the crawl, and returns the summary otherwise.
C19_EmptyResultIffNothingFetched ==
    cv_pc \in { "RuntimeError", "success" } =>
        /\ cv_pc = "RuntimeError" <=> ~ \E i \in 1..Len(log) : IsSuccessfulFetch(log[i])
        /\ cv_pc = "success" <=> \E i \in 1..Len(log) : IsSuccessfulFetch(log[i])

\* C19 with the pages that crawl() returns in place of the pages fetched
C19_EmptyResultIffNoContent ==
    cv_pc \in { "RuntimeError", "success" } =>
        (cv_pc = "RuntimeError" <=> ~ \E i \in 1..Len(log) : log[i][1] = "fetch_ok")

\* the depth of the first frontier entry of url that crawl() popped: entries
\* leave the frontier in the order they were put in, so this is the depth at
\* which url was first seen
FirstSeenDepth(url) ==
    LET I == { i \in 1..Len(log) : log[i][2] = url }
    IN  log[Min(I)][3]

\* C23: the depth recorded in url_depths for a fetched URL is the depth at
\* which the URL was first seen, in every run, runs with failed fetches
\* included.
C23_RecordedDepthIsFirstSeen ==
    \A url \in DOMAIN url_depths : url_depths[url] = FirstSeenDepth(url)

\* C23 for the URLs no fetch of which failed
C23_FirstSeenWithoutFailure ==
    \A url \in DOMAIN url_depths :
        (\A i \in 1..Len(log) : log[i][2] = url => log[i][1] # "fetch_fail")
            => url_depths[url] = FirstSeenDepth(url)

\* C24: crawl() terminates on every finite link graph, with cycles, self-links,
\* duplicate links and failing fetches, also with max_depth = 0: the frontier
\* is eventually empty and crawl() returns.
C24_CrawlTerminates == <>(pc = "done" /\ to_crawl = <<>>)

\* crawl() has returned with max_depth = 0 from a site on which /d/c links to
\* itself and back to the root, after both fetches of one page failed
C24_Witness ==
    /\ pc = "done"
    /\ max_depth = 0
    /\ web[PgC] = << PgRoot, PgC, PgE2 >>
    /\ PgC \in discovered_urls
    /\ \E i, j \in 1..Len(log) :
          /\ i < j
          /\ log[i][1] = "fetch_fail" /\ log[j][1] = "fetch_fail"
          /\ log[i][2] = log[j][2]


\* C25: _fix_orphaned_code_content is idempotent on every text: applied to its
\* own output it returns that output unchanged.
C25_FixOrphanedIdempotent ==
    md_pc = "orphaned_twice" => md_out = md_prev

\* the lines of a text from index i on are well-formed populated blocks: every
\* opening fence is followed by a content line first and has a closing fence
\* (inside: an opening fence is pending; after_open: it was the last line)
RECURSIVE WellFormedFrom(_, _, _, _)
WellFormedFrom(lines, i, inside, after_open) ==
    IF i > Len(lines) THEN ~inside
    ELSE IF IsFenceLine(lines[i])
    THEN IF inside
         THEN ~after_open /\ WellFormedFrom(lines, i + 1, FALSE, FALSE)
         ELSE WellFormedFrom(lines, i + 1, TRUE, TRUE)
    ELSE (after_open => IsContentLine(lines[i]))
         /\ WellFormedFrom(lines, i + 1, inside, FALSE)

\* the text holds a block, and all its fence lines form well-formed populated
\* blocks
WellFormedPopulated(lines) ==
    /\ \E i \in 1..Len(lines) : IsFenceLine(lines[i])
    /\ WellFormedFrom(lines, 1, FALSE, FALSE)

\* C27: _fix_empty_code_blocks returns unchanged every text whose fence lines
\* form well-formed populated blocks, also when the closing fence of one block
\* is directly followed by the opening fence of the next.
C27_WellFormedUnchanged ==
    (md_pc = "fix_empty" /\ WellFormedPopulated(md_in)) => md_out = md_in

\* the part of C27 that holds: well-formed populated blocks no two fences of
\* which are adjacent are returned unchanged
C27_SeparatedBlocksUnchanged ==
    (md_pc = "fix_empty" /\ WellFormedPopulated(md_in) /\ ~AdjacentFences(md_in))
        => md_out = md_in

\* if line.strip() and line.strip() is not the fence: a line of content
IsTextLine(line) == IsContentLine(line) /\ ~IsFenceLine(line)

\* the non-blank, non-fence lines of a text, in order
ContentOf(lines) == SelectSeq(lines, IsTextLine)

\* C28: _fix_empty_code_blocks never loses, duplicates or reorders content: the
\* non-blank, non-fence lines of the output are those of the input, in order.
C28_ContentPreserved ==
    md_pc = "fix_empty" => ContentOf(md_out) = ContentOf(md_in)

\* a block was rebuilt around two content lines and the blank line between
\* them was dropped
C28_Witness ==
    /\ md_pc = "fix_empty"
    /\ md_in = << Fence, Fence, "cmd", "", "adk --version", Fence >>
    /\ md_out = << Fence, "cmd", "adk --version", Fence >>


\* the number of fence lines among the first n lines of a text
FenceCount(lines, n) == Cardinality({ k \in 1..n : IsFenceLine(lines[k]) })

\* line n is a fence that opens a block: an odd number of fences up to it
IsOpeningFence(lines, n) == IsFenceLine(lines[n]) /\ FenceCount(lines, n) % 2 = 1

\* out[k..] is lines[i..] with synthesized lines put in, each directly after
\* a fence line of lines (after an opening fence, if opening_only) and one at
\* a place at most
RECURSIVE InsertedOnlyAfterFence(_, _, _, _, _, _)
InsertedOnlyAfterFence(opening_only, lines, out, i, k, fresh) ==
    IF k > Len(out) THEN i > Len(lines)
    ELSE \/ /\ i <= Len(lines)
            /\ out[k] = lines[i]
            /\ InsertedOnlyAfterFence(opening_only, lines, out, i + 1, k + 1, TRUE)
         \/ /\ fresh
            /\ i > 1
            /\ IsFenceLine(lines[i - 1])
            /\ opening_only => IsOpeningFence(lines, i - 1)
            /\ out[k] = VertexLine
            /\ InsertedOnlyAfterFence(opening_only, lines, out, i, k + 1, FALSE)

\* C26: _fix_missing_first_lines_v2 keeps every line of its input, in order,
\* and puts a synthesized line only directly after a fence that opens a block,
\* never after a closing fence or outside a block.
C26_InsertsOnlyAfterOpeningFence ==
    md_pc = "fix_missing" => InsertedOnlyAfterFence(TRUE, md_in, md_out, 1, 1, TRUE)

\* the part of C26 that holds: the lines of the input are kept in order and a
\* synthesized line directly follows a fence line, opening or closing
C26_InsertsOnlyAfterFence ==
    md_pc = "fix_missing" => InsertedOnlyAfterFence(FALSE, md_in, md_out, 1, 1, TRUE)


\* the non-blank lines of a text, in order
NonBlank(lines) == SelectSeq(lines, IsContentLine)

\* line k of a text lies between an opening fence and its closing fence
InsideBlock(lines, k) ==
    /\ ~IsFenceLine(lines[k])
    /\ FenceCount(lines, k) % 2 = 1
    /\ \E c \in (k + 1)..Len(lines) : IsFenceLine(lines[c])

\* C30: _clean_markdown leaves code untouched: every non-blank line between an
\* opening and a closing fence is identical in the output, lines of code that
\* begin with # included; heading markers are normalized outside blocks only.
C30_CodeUntouched ==
    md_pc = "clean" =>
        /\ Len(NonBlank(md_out)) = Len(NonBlank(md_in))
        /\ \A k \in 1..Len(NonBlank(md_in)) :
               InsideBlock(NonBlank(md_in), k) => NonBlank(md_out)[k] = NonBlank(md_in)[k]

\* the part of C30 that holds: no non-blank line is dropped, and a line that
\* does not begin with # is identical in the output, inside and outside blocks
C30_OtherLinesUntouched ==
    md_pc = "clean" =>
        /\ Len(NonBlank(md_out)) = Len(NonBlank(md_in))
        /\ \A k \in 1..Len(NonBlank(md_in)) :
               ~StartsWithHash(NonBlank(md_in)[k]) => NonBlank(md_out)[k] = NonBlank(md_in)[k]


\* the number of lines that start with a fence among the first n lines
MarkerCount(lines, n) == Cardinality({ k \in 1..n : StartsWithFence(lines[k]) })

\* line i is a bare fence that opens a block and is directly followed by line
\* content
OpensBlockOf(lines, i, content) ==
    /\ Strip(lines[i]) = Fence
    /\ MarkerCount(lines, i) % 2 = 1
    /\ i + 1 <= Len(lines)
    /\ lines[i + 1] = content

\* C22: the enhancement attaches a language tag to a fence-open line that is
\* directly followed by content: the fence of a block that starts with the
\* shell command adk --version is put out with the tag bash, the fence of a
\* block of Python with the tag python.
C22_LanguageTagAttached ==
    md_pc = "enhanced" =>
        \A i \in 1..Len(md_in) :
            /\ OpensBlockOf(md_in, i, "adk --version") => md_out[i] = "~~~bash"
            /\ OpensBlockOf(md_in, i, "python3 x.py") => md_out[i] = "~~~python"

\* what holds instead: no line gets a tag; a line is put out as it is, but for
\* a fence followed by blanks, which loses them
C22_NoTagEverAttached ==
    md_pc = "enhanced" =>
        /\ Len(md_out) = Len(md_in)
        /\ \A i \in 1..Len(md_in) :
               md_out[i] = md_in[i] \/ (md_in[i] = "~~~ " /\ md_out[i] = Fence)


\* the text holds n blank lines in a row
BlankRun(lines, n) ==
    \E i \in 1..(Len(lines) - n + 1) : \A k \in i..(i + n - 1) : Strip(lines[k]) = ""

\* C21: the document generate_markdown returns (header plus cleaned body,
\* after the enhancement) holds no run of three consecutive blank lines.
C21_NoThreeBlankLines ==
    md_pc = "generated" => ~BlankRun(md_out, 3)

\* the part of C21 that holds: the cleaned body holds no two blank lines in a
\* row, and under a header without a run of blank lines the document holds
\* none of three
C21_BodyBlankLinesReduced ==
    /\ md_pc = "cleaned" => ~BlankRun(md_out, 2)
    /\ (md_pc = "generated" /\ ~BlankRun(md_prev, 2)) => ~BlankRun(md_out, 3)

\* C29: the body of the document generate_markdown returns holds no empty
\* fence block, a fence line directly followed by a fence line, also when
\* html2text put out the legacy delimiters.
C29_NoEmptyFenceBlock ==
    md_pc = "generated" => ~AdjacentFences(md_out)

\* the part of C29 that holds: a text without an opening legacy delimiter
\* comes out without an empty fence block
C29_NoEmptyBlockWithoutLegacy ==
    (md_pc = "generated" /\ CodeOpen \notin Range(md_in)) => ~AdjacentFences(md_out)

====
